---- MODULE Spec2Model ----
(***************************************************************************)
(* ThreadPool (src/ThreadPool/src/threadpool.h): a fixed set of worker     *)
(* threads polling one mutex-guarded FIFO of tasks.                        *)
(*                                                                         *)
(* Threads of the model:                                                   *)
(*   - the owner thread, which drives the public interface (addTask,       *)
(*     setPaused, waitForTasks, reset, the destructor);                    *)
(*   - a producer thread, which only calls addTask;                        *)
(*   - the workers, one per element of m_threads.                          *)
(* A step of the model is one access to shared state (an atomic load or    *)
(* store, or a critical section of m_mutex).  Accesses that no other       *)
(* thread can observe are folded into the neighbouring step.  A worker's   *)
(* loads of m_running and m_paused at the top of its loop are one step:    *)
(* only the owner writes the two flags, and whenever it writes m_running   *)
(* between the two loads it does not write m_paused before the worker has  *)
(* left the loop, so the pair a worker sees is a pair the flags held       *)
(* together.                                                               *)
(***************************************************************************)
EXTENDS Integers, Sequences, FiniteSets, TLC

\* ---- bounds of the model ------------------------------------------------
MaxTasks == 2            \* addTask calls in one behaviour
MaxThreads == 2          \* largest thread count passed to the constructor or reset

\* the value std::thread::hardware_concurrency() reports on the modelled platform
HardwareConcurrency == MaxThreads

\* size_t arithmetic is modulo 2^64; the model keeps the wrap-around with a
\* narrower word, wide enough that no counter of the model reaches it.
SizeModulus == 256

VARIABLES
    m_tasks,            \* std::queue<std::function<void()>>: sequence of task ids
    m_threads,          \* std::vector<std::thread>: sequence of [pc, task]
    m_threadsCount,     \* size_t
    m_tasksTotalCount,  \* std::atomic<size_t>
    m_running,          \* std::atomic<bool>
    m_paused,           \* std::atomic<bool>
    evalOrder,          \* operand order the build gives getTasksRunningCount
    pc,                 \* position of the owner and of the producer
    adding,             \* per client: the task whose addTask is in progress, or 0
    frame,              \* owner's locals: [ctx, first, wasPaused, k, before]
    hist,               \* per task: [by, pops, runs, held, old]  (history)
    userPaused,         \* setPaused(true) returned, no setPaused(false)/reset since
    via,                \* branch by which the last waitForTasks returned
    dtor                \* what the destructor found: [started, paused, queued, submitted]

vars == <<m_tasks, m_threads, m_threadsCount, m_tasksTotalCount, m_running,
          m_paused, evalOrder, pc, adding, frame, hist, userPaused, via, dtor>>

\* the flags, the build's choice, and the destructor's record
flags == <<m_running, m_paused, evalOrder, userPaused, dtor>>

\* the owner's position and locals
owner == <<pc, adding, frame, via>>

Clients == {"owner", "producer"}

TaskIds == 1..Len(hist)

\* ---- helpers --------------------------------------------------------------
Range(s) == {s[i] : i \in 1..Len(s)}

\* a default-constructed std::thread: not joinable
NoThread == [pc |-> "none", task |-> 0]

\* a thread just started on ThreadPool::worker
Spawned == [pc |-> "loop", task |-> 0]

Inc(x) == (x + 1) % SizeModulus

\* a count-down that takes two
DecTwice(x) == (x + SizeModulus - 2) % SizeModulus

Dec(x) == (x + SizeModulus - 1) % SizeModulus

\* size_t subtraction
Sub(a, b) == (a - b + SizeModulus) % SizeModulus

\* threadsCount ? threadsCount : std::thread::hardware_concurrency()
ThreadsCountOrDefault(n) == IF n # 0 THEN n ELSE HardwareConcurrency

Workers == 1..Len(m_threads)

Executing == {i \in Workers : m_threads[i].pc = "run"}

Live == {i \in Workers : m_threads[i].pc \in {"loop", "pop", "run", "dec"}}

\* the owner is in none of waitForTasks, reset, the destructor
NoFrame == [ctx |-> "none", first |-> 0, wasPaused |-> FALSE, k |-> 0, before |-> 0]

\* ---- construction ---------------------------------------------------------
Init ==
    \E n \in 0..MaxThreads :
        /\ m_threadsCount = ThreadsCountOrDefault(n)
        /\ m_threads = [i \in 1..ThreadsCountOrDefault(n) |-> Spawned]
        /\ m_tasks = <<>>
        /\ m_tasksTotalCount = 0
        /\ m_running = TRUE
        /\ m_paused = FALSE
        /\ evalOrder \in {"total_first", "queue_first"}
        /\ pc = [c \in Clients |-> "idle"]
        /\ adding = [c \in Clients |-> 0]
        /\ frame = NoFrame
        /\ hist = <<>>
        /\ userPaused = FALSE
        /\ via = "none"
        /\ dtor = [started |-> FALSE, paused |-> FALSE, queued |-> {}, submitted |-> {}]

\* ---- addTask (owner or producer) ----------------------------------------
Alive == pc["owner"] \notin {"dead", "crashed"}

\* history of a task: who submitted it, how often it was dequeued and run,
\* whether it was queued when the reset in progress was called (held), and
\* whether a worker of the set that reset was replacing dequeued it (old)
NewTask(c) == [by |-> c, pops |-> 0, runs |-> 0, held |-> FALSE, old |-> FALSE]

\* ++m_tasksTotalCount;
AddTaskCount(c) ==
    /\ Alive
    /\ pc[c] = "idle"
    /\ Len(hist) < MaxTasks
    /\ m_tasksTotalCount' = Inc(m_tasksTotalCount)
    /\ hist' = Append(hist, NewTask(c))
    /\ adding' = [adding EXCEPT ![c] = Len(hist) + 1]
    /\ pc' = [pc EXCEPT ![c] = "push"]
    /\ via' = IF c = "owner" THEN "none" ELSE via
    /\ frame' = IF c = "owner" THEN NoFrame ELSE frame
    /\ UNCHANGED <<m_tasks, m_threads, m_threadsCount, flags>>

\* { lock_guard; m_tasks.push(task); }
AddTaskPush(c) ==
    /\ Alive
    /\ pc[c] = "push"
    /\ m_tasks' = Append(m_tasks, adding[c])
    /\ adding' = [adding EXCEPT ![c] = 0]
    /\ pc' = [pc EXCEPT ![c] = "idle"]
    /\ UNCHANGED <<m_threads, m_threadsCount, m_tasksTotalCount, flags,
                   frame, hist, via>>

\* ---- setPaused -------------------------------------------------------------
SetPaused(paused) ==
    /\ pc["owner"] = "idle"
    /\ m_paused' = paused
    /\ userPaused' = paused
    /\ via' = "none"
    /\ frame' = NoFrame
    /\ UNCHANGED <<m_tasks, m_threads, m_threadsCount, m_tasksTotalCount,
                   m_running, evalOrder, dtor, pc, adding, hist>>

\* ---- the worker loop -------------------------------------------------------
SetWorker(i, w) == m_threads' = [m_threads EXCEPT ![i] = w]

\* a worker loop that yields on m_paused before it looks at m_running
WorkerLoopPausedFirst(i) ==
    /\ m_threads[i].pc = "loop"
    /\ SetWorker(i, [pc |-> IF m_paused THEN "loop"
                            ELSE IF ~m_running THEN "exited"
                            ELSE "pop",
                     task |-> 0])
    /\ UNCHANGED <<m_tasks, m_threadsCount, m_tasksTotalCount, flags, owner, hist>>

\* while (m_running) { if (!m_paused && ...  else yield
\* leaves the loop, goes on to popTask, or yields and starts the loop again
WorkerLoop(i) ==
    /\ m_threads[i].pc = "loop"
    /\ SetWorker(i, [pc |-> IF ~m_running THEN "exited"
                            ELSE IF ~m_paused THEN "pop"
                            ELSE "loop",
                     task |-> 0])
    /\ UNCHANGED <<m_tasks, m_threadsCount, m_tasksTotalCount, flags, owner, hist>>

\* popTask without m_tasks.pop(): the front is handed out and stays queued
popTaskKeepFront(q) ==
    IF q # <<>>
    THEN [ok |-> TRUE, task |-> Head(q), rest |-> q]
    ELSE [ok |-> FALSE, task |-> 0, rest |-> q]

\* popTask that takes the newest task instead of the oldest
popTaskBack(q) ==
    IF q # <<>>
    THEN [ok |-> TRUE, task |-> q[Len(q)], rest |-> SubSeq(q, 1, Len(q) - 1)]
    ELSE [ok |-> FALSE, task |-> 0, rest |-> q]

\* popTask: under the lock, move the front out and pop it
popTask(q) ==
    IF q # <<>>
    THEN [ok |-> TRUE, task |-> Head(q), rest |-> Tail(q)]
    ELSE [ok |-> FALSE, task |-> 0, rest |-> q]

\* a worker that takes a task only while no other worker runs one
WorkerPopSerial(i) ==
    /\ m_threads[i].pc = "pop"
    /\ LET r == IF Executing = {} THEN popTask(m_tasks)
                ELSE [ok |-> FALSE, task |-> 0, rest |-> m_tasks] IN
        /\ m_tasks' = r.rest
        /\ SetWorker(i, [pc |-> IF r.ok THEN "run" ELSE "loop", task |-> r.task])
        /\ hist' = IF r.ok
                   THEN [hist EXCEPT ![r.task].pops = @ + 1,
                                     ![r.task].old = @ \/ hist[r.task].held]
                   ELSE hist
    /\ UNCHANGED <<m_threadsCount, m_tasksTotalCount, flags, owner>>

\* ... popTask(task))  else yield
WorkerPop(i) ==
    /\ m_threads[i].pc = "pop"
    /\ LET r == popTask(m_tasks) IN
        /\ m_tasks' = r.rest
        /\ SetWorker(i, [pc |-> IF r.ok THEN "run" ELSE "loop", task |-> r.task])
        /\ hist' = IF r.ok
                   THEN [hist EXCEPT ![r.task].pops = @ + 1,
                                     ![r.task].old = @ \/ hist[r.task].held]
                   ELSE hist
    /\ UNCHANGED <<m_threadsCount, m_tasksTotalCount, flags, owner>>

\* a worker that drops its dequeued task when the pool has been stopped
WorkerRunUnlessStopped(i) ==
    /\ m_threads[i].pc = "run"
    /\ IF m_running
       THEN /\ SetWorker(i, [pc |-> "dec", task |-> 0])
            /\ hist' = [hist EXCEPT ![m_threads[i].task].runs = @ + 1]
       ELSE /\ SetWorker(i, [pc |-> "exited", task |-> 0])
            /\ UNCHANGED hist
    /\ UNCHANGED <<m_tasks, m_threadsCount, m_tasksTotalCount, flags, owner>>

\* task();
WorkerRun(i) ==
    /\ m_threads[i].pc = "run"
    /\ SetWorker(i, [pc |-> "dec", task |-> 0])
    /\ hist' = [hist EXCEPT ![m_threads[i].task].runs = @ + 1]
    /\ UNCHANGED <<m_tasks, m_threadsCount, m_tasksTotalCount, flags, owner>>

\* a worker that does not count its finished task down
WorkerForgetCount(i) ==
    /\ m_threads[i].pc = "dec"
    /\ SetWorker(i, [pc |-> "loop", task |-> 0])
    /\ UNCHANGED <<m_tasks, m_threadsCount, m_tasksTotalCount, flags, owner, hist>>

\* --m_tasksTotalCount;
WorkerCountDown(i) ==
    /\ m_threads[i].pc = "dec"
    /\ m_tasksTotalCount' = Dec(m_tasksTotalCount)
    /\ SetWorker(i, [pc |-> "loop", task |-> 0])
    /\ UNCHANGED <<m_tasks, m_threadsCount, flags, owner, hist>>

worker(i) ==
    \/ WorkerLoop(i)
    \/ WorkerPop(i)
    \/ WorkerRun(i)
    \/ WorkerCountDown(i)

\* ---- the counters' accessors ------------------------------------------------
\* { lock_guard; return m_tasks.size(); }
getTasksQueuedCount == Len(m_tasks)

\* a running count that leaves the queued tasks in
RunningCountNoSub(total, queued) == total

\* return m_tasksTotalCount - getTasksQueuedCount(), from the two values read
getTasksRunningCount(total, queued) == Sub(total, queued)

getTasksTotalCount == m_tasksTotalCount

getThreadsCount == m_threadsCount

\* ---- waitForTasks ----------------------------------------------------------
\* where the owner continues when waitForTasks breaks out of its loop
AfterWait(ctx) ==
    CASE ctx = "reset" -> "r_stop"
      [] ctx = "dtor" -> "d_stop"
      [] OTHER -> "idle"

WaitReturn(branch) ==
    /\ pc' = [pc EXCEPT !["owner"] = AfterWait(frame.ctx)]
    /\ frame' = IF frame.ctx = "call" THEN NoFrame ELSE [frame EXCEPT !.first = 0]
    /\ via' = branch

WaitForTasksCall ==
    /\ pc["owner"] = "idle"
    /\ pc' = [pc EXCEPT !["owner"] = "wait"]
    /\ frame' = [NoFrame EXCEPT !.ctx = "call"]
    /\ via' = "none"
    /\ UNCHANGED <<m_tasks, m_threads, m_threadsCount, m_tasksTotalCount,
                   flags, adding, hist>>

\* waitForTasks testing the queue instead of the outstanding counter
WaitQueueEmpty == Len(m_tasks) = 0

\* if (m_tasksTotalCount == 0) break;
WaitNotPausedDone == m_tasksTotalCount = 0

\* One pass of the loop up to its first read of a counter: with paused false
\* the whole test of m_tasksTotalCount; with paused true the first operand of
\* getTasksRunningCount().  A pass that does not break yields and starts again.
WaitCheck ==
    /\ pc["owner"] = "wait"
    /\ IF ~m_paused
       THEN IF WaitNotPausedDone
            THEN WaitReturn("not_paused")
            ELSE UNCHANGED <<pc, frame, via>>
       ELSE /\ frame' = [frame EXCEPT !.first =
                            IF evalOrder = "total_first"
                            THEN m_tasksTotalCount
                            ELSE getTasksQueuedCount]
            /\ pc' = [pc EXCEPT !["owner"] = "wait2"]
            /\ UNCHANGED via
    /\ UNCHANGED <<m_tasks, m_threads, m_threadsCount, m_tasksTotalCount,
                   flags, adding, hist>>

\* the second operand of getTasksRunningCount(), and the comparison with 0
WaitCheckRunning ==
    /\ pc["owner"] = "wait2"
    /\ LET total == IF evalOrder = "total_first"
                    THEN frame.first ELSE m_tasksTotalCount
           queued == IF evalOrder = "total_first"
                     THEN getTasksQueuedCount ELSE frame.first
       IN IF getTasksRunningCount(total, queued) = 0
          THEN WaitReturn("paused")
          ELSE /\ pc' = [pc EXCEPT !["owner"] = "wait"]
               /\ frame' = [frame EXCEPT !.first = 0]
               /\ UNCHANGED via
    /\ UNCHANGED <<m_tasks, m_threads, m_threadsCount, m_tasksTotalCount,
                   flags, adding, hist>>

\* ---- createThreads / joinThreads -------------------------------------------
\* createThreads that starts no thread
createNoThreads(threads, count) == threads

\* m_threads[i] = std::thread(&ThreadPool::worker, this) for i < count
createThreads(threads, count) ==
    [i \in 1..Len(threads) |-> IF i <= count THEN Spawned ELSE threads[i]]

\* createThreads writes m_threads[i] for every i < m_threadsCount
IndexInRange(threads, count) == count <= Len(threads)

Joinable(w) == w.pc # "none" /\ w.pc # "joined"

\* join() returns once the thread has left worker()
CanJoinThreads ==
    \A i \in Workers : Joinable(m_threads[i]) => m_threads[i].pc = "exited"

joinThreads(threads) ==
    [i \in 1..Len(threads) |->
        IF Joinable(threads[i]) THEN [pc |-> "joined", task |-> 0] ELSE threads[i]]

\* ---- reset -------------------------------------------------------------------
\* const bool wasPaused = m_paused; m_paused = true; waitForTasks();
ResetBegin(k) ==
    /\ pc["owner"] = "idle"
    /\ frame' = [ctx |-> "reset", first |-> 0, wasPaused |-> m_paused, k |-> k,
                 before |-> m_threadsCount]
    /\ m_paused' = TRUE
    /\ pc' = [pc EXCEPT !["owner"] = "wait"]
    /\ hist' = [t \in TaskIds |->
                  IF t \in Range(m_tasks) THEN [hist[t] EXCEPT !.held = TRUE] ELSE hist[t]]
    /\ userPaused' = FALSE
    /\ via' = "none"
    /\ UNCHANGED <<m_tasks, m_threads, m_threadsCount, m_tasksTotalCount,
                   m_running, evalOrder, dtor, adding>>

\* m_running = false;
ResetStop ==
    /\ pc["owner"] = "r_stop"
    /\ m_running' = FALSE
    /\ pc' = [pc EXCEPT !["owner"] = "r_join"]
    /\ via' = "none"
    /\ UNCHANGED <<m_tasks, m_threads, m_threadsCount, m_tasksTotalCount,
                   m_paused, evalOrder, userPaused, dtor, adding, frame, hist>>

\* reset that leaves m_threadsCount as it was
KeepThreadsCount(k) == m_threadsCount

\* m_threadsCount = threadsCount ? threadsCount : hardware_concurrency();
ResetThreadsCount(k) == ThreadsCountOrDefault(k)

\* reset that puts the value it recorded back into m_paused
PausedRestored == frame.wasPaused

\* m_paused = false;
PausedAfterReset == FALSE

\* joinThreads(); then the new count, the new vector, the flags, createThreads().
\* With threadsCount 0 the new vector is empty while the new count is not, and
\* createThreads() assigns past its end: the model stops the process there.
ResetRecreate ==
    /\ pc["owner"] = "r_join"
    /\ CanJoinThreads
    /\ LET count == ResetThreadsCount(frame.k)
           fresh == [i \in 1..frame.k |-> NoThread]
       IN /\ m_threadsCount' = count
          /\ m_paused' = PausedAfterReset
          /\ m_running' = TRUE
          /\ IF IndexInRange(fresh, count)
             THEN /\ m_threads' = createThreads(fresh, count)
                  /\ pc' = [pc EXCEPT !["owner"] = "idle"]
                  /\ via' = "reset_done"
             ELSE /\ m_threads' = fresh
                  /\ pc' = [pc EXCEPT !["owner"] = "crashed"]
                  /\ via' = "none"
    /\ hist' = [t \in TaskIds |-> [hist[t] EXCEPT !.held = FALSE]]
    /\ frame' = [frame EXCEPT !.ctx = "none"]
    /\ UNCHANGED <<m_tasks, m_tasksTotalCount, evalOrder, userPaused, dtor, adding>>

\* a destructor that stops the workers without waitForTasks()
DestroyWithoutWait ==
    /\ pc["owner"] = "idle"
    /\ pc' = [pc EXCEPT !["owner"] = "d_stop"]
    /\ frame' = [NoFrame EXCEPT !.ctx = "dtor"]
    /\ dtor' = [started |-> TRUE, paused |-> m_paused,
                queued |-> Range(m_tasks), submitted |-> TaskIds]
    /\ via' = "none"
    /\ UNCHANGED <<m_tasks, m_threads, m_threadsCount, m_tasksTotalCount,
                   m_running, m_paused, evalOrder, userPaused, adding, hist>>

\* ---- the destructor ----------------------------------------------------------
\* waitForTasks();
DestroyBegin ==
    /\ pc["owner"] = "idle"
    /\ pc' = [pc EXCEPT !["owner"] = "wait"]
    /\ frame' = [NoFrame EXCEPT !.ctx = "dtor"]
    /\ dtor' = [started |-> TRUE, paused |-> m_paused,
                queued |-> Range(m_tasks), submitted |-> TaskIds]
    /\ via' = "none"
    /\ UNCHANGED <<m_tasks, m_threads, m_threadsCount, m_tasksTotalCount,
                   m_running, m_paused, evalOrder, userPaused, adding, hist>>

\* m_running = false;
DestroyStop ==
    /\ pc["owner"] = "d_stop"
    /\ m_running' = FALSE
    /\ pc' = [pc EXCEPT !["owner"] = "d_join"]
    /\ via' = "none"
    /\ UNCHANGED <<m_tasks, m_threads, m_threadsCount, m_tasksTotalCount,
                   m_paused, evalOrder, userPaused, dtor, adding, frame, hist>>

\* joinThreads();
DestroyJoin ==
    /\ pc["owner"] = "d_join"
    /\ CanJoinThreads
    /\ m_threads' = joinThreads(m_threads)
    /\ pc' = [pc EXCEPT !["owner"] = "dead"]
    /\ UNCHANGED <<m_tasks, m_threadsCount, m_tasksTotalCount, flags,
                   adding, frame, hist, via>>

\* ---- the specification --------------------------------------------------------
Next ==
    \/ \E c \in Clients : AddTaskCount(c)
    \/ \E c \in Clients : AddTaskPush(c)
    \/ \E b \in BOOLEAN : SetPaused(b)
    \/ WaitForTasksCall
    \/ WaitCheck
    \/ WaitCheckRunning
    \/ \E k \in 0..MaxThreads : ResetBegin(k)
    \/ ResetStop
    \/ ResetRecreate
    \/ DestroyBegin
    \/ DestroyStop
    \/ DestroyJoin
    \/ \E i \in Workers : worker(i)

Spec == Init /\ [][Next]_vars

\* Draining: no pause, no reset, no destruction; every thread is scheduled
\* again and again (threads of the operating system, each loop yielding).
DrainNext ==
    \/ \E c \in Clients : AddTaskCount(c)
    \/ \E c \in Clients : AddTaskPush(c)
    \/ WaitForTasksCall
    \/ WaitCheck
    \/ \E i \in Workers : worker(i)

DrainSpec ==
    /\ Init
    /\ [][DrainNext]_vars
    /\ \A i \in 1..MaxThreads : WF_vars(i \in Workers /\ worker(i))
    /\ \A c \in Clients : WF_vars(AddTaskPush(c))
    /\ WF_vars(WaitCheck)

\* ---- properties ------------------------------------------------------------------
OwnerTasks == {t \in TaskIds : hist[t].by = "owner"}

Completed(t) == hist[t].runs >= 1

RunningTask(t) == \E i \in Workers : m_threads[i].pc = "run" /\ m_threads[i].task = t

\* C1: when waitForTasks returns through its not-paused branch, every task the
\* calling thread submitted before the call has been executed to completion.
C1_CompletionVisibility ==
    via = "not_paused" => \A t \in OwnerTasks : Completed(t)

C1_Witness ==
    /\ via = "not_paused"
    /\ pc["owner"] = "idle"
    /\ Cardinality(OwnerTasks) >= 2
    /\ \A t \in OwnerTasks : Completed(t)

\* C2: from the return of setPaused(true) until setPaused(false) or reset is
\* called, no worker removes a task from the queue.
C2_PauseFreezesDequeue ==
    [][(userPaused /\ userPaused') => Len(m_tasks') >= Len(m_tasks)]_vars

\* C3: at the moment waitForTasks returns through its paused branch, no worker
\* is in the middle of executing a task.
C3_PausedDrain ==
    [][(via # "paused" /\ via' = "paused")
         => \A i \in 1..Len(m_threads') : m_threads'[i].pc # "run"]_vars

\* C4: a task that is queued when reset is called stays queued until the new
\* workers exist: no worker of the old set dequeues it, and it is dequeued at
\* most once.
C4_ResetPreservesQueued ==
    \A t \in TaskIds :
        /\ ~hist[t].old
        /\ hist[t].held => t \in Range(m_tasks)
        /\ hist[t].pops <= 1

\* C5: when the pool is destroyed while paused, no task that is queued at the
\* start of the destruction is executed.
C5_DestroyAbandonsQueued ==
    (dtor.started /\ dtor.paused)
        => \A t \in dtor.queued : hist[t].runs = 0 /\ ~RunningTask(t)

\* C6: when the pool is destroyed while not paused, m_running stays true until
\* waitForTasks has returned, and from then on (before any worker is stopped)
\* every task submitted before the destruction has completed.
C6_DestroyDrains ==
    (dtor.started /\ ~dtor.paused)
        => /\ pc["owner"] = "wait" => m_running
           /\ pc["owner"] \in {"d_stop", "d_join", "dead"}
                 => \A t \in dtor.submitted : Completed(t)

C6_Witness ==
    /\ dtor.started
    /\ ~dtor.paused
    /\ pc["owner"] = "dead"
    /\ Cardinality(dtor.submitted) >= 2
    /\ \A t \in dtor.submitted : Completed(t)

\* C7: every task is removed from the queue at most once, is held by at most
\* one worker, is no longer queued once removed, and is run at most once.
C7_AtMostOnceDequeue ==
    \A t \in TaskIds :
        /\ hist[t].pops <= 1
        /\ hist[t].runs <= hist[t].pops
        /\ Cardinality({i \in Workers : m_threads[i].task = t}) <= 1
        /\ hist[t].pops = 1 => t \notin Range(m_tasks)

C7_Witness ==
    \E i, j \in Workers :
        /\ i # j
        /\ m_threads[i].pc = "run"
        /\ m_threads[j].pc = "run"
        /\ m_threads[i].task # m_threads[j].task

\* C8: when reset(k) with k >= 1 has returned, getThreadsCount() is k and
\* exactly k worker threads are running.
C8_ResetSetsThreadCount ==
    (via = "reset_done" /\ frame.k >= 1)
        => /\ getThreadsCount = frame.k
           /\ Len(m_threads) = frame.k
           /\ Cardinality(Live) = frame.k

C8_Witness ==
    /\ via = "reset_done"
    /\ frame.k >= 1
    /\ frame.before # frame.k
    /\ getThreadsCount = frame.k
    /\ Cardinality(Live) = frame.k

\* C9: when reset has returned, paused is false and running is true, whatever
\* paused was when reset was called.
C9_ResetClearsPaused ==
    via = "reset_done" => (~m_paused /\ m_running)

C9_Witness ==
    /\ via = "reset_done"
    /\ frame.wasPaused
    /\ ~m_paused
    /\ m_running

\* C10: with paused false throughout and fair scheduling, a call of
\* waitForTasks eventually returns, and the step by which it returns leaves
\* the outstanding counter at 0.
C10_DrainTerminates ==
    /\ (pc["owner"] = "wait") ~> (via = "not_paused")
    /\ [][(via # "not_paused" /\ via' = "not_paused") => m_tasksTotalCount' = 0]_vars

C10_Witness ==
    /\ via = "not_paused"
    /\ m_tasksTotalCount = 0
    /\ Cardinality(Live) >= 1
    /\ \E t \in TaskIds : Completed(t)

\* ---- waitForTasks with every other thread standing still ----------------------
\* the owner is inside a waitForTasks() it called itself
InCall == pc["owner"] \in {"wait", "wait2"} /\ frame.ctx = "call"

\* As Next, but from the call of waitForTasks() to its return only the calling
\* thread takes steps.
SoloNext ==
    \/ ~InCall /\ Next
    \/ InCall /\ WaitCheck
    \/ InCall /\ WaitCheckRunning

SoloSpec == Init /\ [][SoloNext]_vars

Submitting == \E c \in Clients : pc[c] = "push"

CountingDown == {i \in Workers : m_threads[i].pc = "dec"}

\* quiescent as C11 words it
QuiescentAsClaimed ==
    \/ ~m_paused /\ m_tasksTotalCount = 0
    \/ m_paused /\ Executing = {} /\ ~Submitting

\* quiescent: as above, and no finished task is still waiting to be counted down
Quiescent ==
    \/ ~m_paused /\ m_tasksTotalCount = 0
    \/ m_paused /\ Executing = {} /\ CountingDown = {} /\ ~Submitting

\* a pass of waitForTasks' loop that ends in yield instead of break
FailedPass ==
    \/ pc["owner"] = "wait2" /\ pc'["owner"] = "wait"
    \/ pc["owner"] = "wait" /\ ~m_paused /\ ~WaitNotPausedDone

PoolUntouched == UNCHANGED <<m_tasks, m_tasksTotalCount, m_paused, m_running, m_threads, hist>>

\* C11 (as claimed): waitForTasks called on a pool that is not paused with
\* counter 0, or paused with no task executing and no submit in progress,
\* returns on its first pass with no other thread stepping, and leaves queue,
\* counter, flags, workers and tasks as they were.
C11_IdempotentDrainAsClaimed ==
    [][(InCall /\ QuiescentAsClaimed) => (~FailedPass /\ PoolUntouched)]_vars

\* C11 (amended): the same, for a pool in which moreover no worker is between
\* the end of a task and its count-down.
C11_IdempotentDrain ==
    /\ [](InCall /\ Quiescent /\ ~m_paused => WaitNotPausedDone)
    /\ [][(InCall /\ Quiescent) => (~FailedPass /\ PoolUntouched)]_vars

C11_Witness ==
    /\ pc["owner"] = "idle"
    /\ via = "paused"
    /\ Quiescent
    /\ Len(m_tasks) >= 1
    /\ \E i \in Workers : m_threads[i].pc = "pop"

\* ---- one reset while another thread submits ------------------------------------
\* The owner calls reset(k), k >= 1, once; the producer submits at any time;
\* every thread is scheduled again and again.
ResetOnce(k) == frame.before = 0 /\ ResetBegin(k)

ResetNext ==
    \/ AddTaskCount("producer")
    \/ AddTaskPush("producer")
    \/ \E k \in 1..MaxThreads : ResetOnce(k)
    \/ WaitCheck
    \/ WaitCheckRunning
    \/ ResetStop
    \/ ResetRecreate
    \/ \E i \in Workers : worker(i)

ResetSpec ==
    /\ Init
    /\ [][ResetNext]_vars
    /\ \A i \in 1..MaxThreads : WF_vars(i \in Workers /\ worker(i))
    /\ WF_vars(AddTaskPush("producer"))
    /\ WF_vars(WaitCheck)
    /\ WF_vars(WaitCheckRunning)
    /\ WF_vars(ResetStop)
    /\ WF_vars(ResetRecreate)

InReset == pc["owner"] \in {"wait", "wait2", "r_stop", "r_join"} /\ frame.ctx = "reset"

\* C12: a reset(k), k >= 1, interleaved with submits of another thread
\* eventually returns; every task submitted is eventually run, and none is
\* dequeued or run twice.
C12_SubmitDuringReset ==
    /\ InReset ~> (via = "reset_done")
    /\ \A t \in 1..MaxTasks : [](t \in TaskIds => <>(t \in TaskIds /\ hist[t].runs = 1))
    /\ [](\A t \in TaskIds : hist[t].pops <= 1 /\ hist[t].runs <= 1)

\* a submit is between its count and its push while the old workers have all
\* left their loops: its task can only be run by a worker of the new set
C12_Witness ==
    /\ pc["owner"] = "r_join"
    /\ pc["producer"] = "push"
    /\ \A i \in Workers : m_threads[i].pc = "exited"
    /\ Len(m_tasks) >= 1

\* ---- the counters ----------------------------------------------------------------
\* the value a call of getTasksRunningCount() returns whose first operand was
\* read into frame.first and whose second operand is read now
ReturnedRunningCount ==
    IF evalOrder = "total_first"
    THEN getTasksRunningCount(frame.first, getTasksQueuedCount)
    ELSE getTasksRunningCount(m_tasksTotalCount, frame.first)

InAddTask == {c \in Clients : pc[c] = "push"}

\* C13: the outstanding counter is at least queue length + executing tasks, it
\* never wraps below 0 (it stays within the number of tasks submitted), and it
\* equals queue length + executing tasks whenever no addTask is between count
\* and push and no worker is between task() and its count-down.
C13_OutstandingCounter ==
    /\ m_tasksTotalCount >= Len(m_tasks) + Cardinality(Executing)
    /\ m_tasksTotalCount <= Len(hist)
    /\ (InAddTask = {} /\ CountingDown = {})
          => m_tasksTotalCount = Len(m_tasks) + Cardinality(Executing)

C13_Witness ==
    /\ InAddTask # {}
    /\ CountingDown # {}
    /\ m_tasksTotalCount = 2
    /\ Len(m_tasks) + Cardinality(Executing) = 0

\* C14: every value getTasksRunningCount() returns lies between 0 and
\* getThreadsCount().
C14_RunningCountRange ==
    pc["owner"] = "wait2" => ReturnedRunningCount \in 0..getThreadsCount

\* C15: the worker vector has getThreadsCount() slots, createThreads never
\* assigns outside it, and a reset(n) that returned left getThreadsCount() at
\* n, or at the hardware concurrency for n = 0.
C15_WorkerSetSize ==
    /\ pc["owner"] # "crashed"
    /\ IndexInRange(m_threads, m_threadsCount)
    /\ Len(m_threads) = getThreadsCount
    /\ via = "reset_done" => getThreadsCount = ThreadsCountOrDefault(frame.k)

\* ---- a task in flight -------------------------------------------------------------
\* worker i holds a dequeued task whose task() has not returned
Holding(i) == m_threads[i].pc = "run"

\* worker i's next step runs its task to completion, whatever the flags say
Completes(i) ==
    /\ m_threads'[i].pc = "dec"
    /\ hist'[m_threads[i].task].runs = hist[m_threads[i].task].runs + 1

\* worker i's next step counts its finished task down, once
CountsDownOnce(i) ==
    /\ m_threads'[i].pc = "loop"
    /\ m_tasksTotalCount' = Dec(m_tasksTotalCount)

\* C16: a worker that has dequeued a task can always go on, its next step
\* completes the task and the one after counts it down once, whatever m_paused
\* and m_running are; no step takes a worker out of its loop or replaces it
\* while it holds a task or owes a count-down.
C16_InFlightCompletes ==
    /\ [](\A i \in Workers :
            /\ Holding(i) => ENABLED WorkerRun(i)
            /\ i \in CountingDown => ENABLED WorkerCountDown(i))
    /\ [][\A i \in Workers :
            /\ Holding(i) =>
                  /\ i <= Len(m_threads')
                  /\ m_threads'[i] = m_threads[i] \/ Completes(i)
            /\ i \in CountingDown =>
                  /\ i <= Len(m_threads')
                  /\ m_threads'[i] = m_threads[i] \/ CountsDownOnce(i)]_vars

C16_Witness ==
    \E i \in Workers :
        /\ ~m_running
        /\ m_paused
        /\ i \in CountingDown
        /\ hist[1].runs = 1

\* ---- order of the queue ------------------------------------------------------------
\* C17: tasks leave the queue in the order in which their pushes completed:
\* every step leaves the queue alone, appends one task at its tail, or removes
\* its head and hands that task to a worker.
C17_FifoOrder ==
    [][\/ m_tasks' = m_tasks
       \/ \E c \in Clients : m_tasks' = Append(m_tasks, adding[c])
       \/ /\ m_tasks # <<>>
          /\ m_tasks' = Tail(m_tasks)
          /\ \E i \in Workers :
                /\ m_threads[i].pc = "pop"
                /\ m_threads'[i] = [pc |-> "run", task |-> Head(m_tasks)]]_vars

\* two addTask calls overlapped: the task counted second was pushed first and
\* has been dequeued first, the task counted first is still queued
C17_Witness ==
    /\ Len(m_tasks) = 1
    /\ \E t \in TaskIds : hist[t].pops = 1 /\ t > m_tasks[1]
    /\ Executing # {}

\* ---- shutdown -----------------------------------------------------------------------
\* The owner submits, pauses, resets and destroys; every worker and the thread
\* blocked in joinThreads are scheduled again and again, and every task returns.
ShutdownNext ==
    \/ AddTaskCount("owner")
    \/ AddTaskPush("owner")
    \/ \E b \in BOOLEAN : SetPaused(b)
    \/ WaitCheck
    \/ WaitCheckRunning
    \/ \E k \in 0..MaxThreads : ResetBegin(k)
    \/ ResetStop
    \/ ResetRecreate
    \/ DestroyBegin
    \/ DestroyStop
    \/ DestroyJoin
    \/ \E i \in Workers : worker(i)

ShutdownSpec ==
    /\ Init
    /\ [][ShutdownNext]_vars
    /\ \A i \in 1..MaxThreads : WF_vars(i \in Workers /\ worker(i))
    /\ WF_vars(ResetRecreate)
    /\ WF_vars(DestroyJoin)

\* the owner is blocked in joinThreads
Joining == pc["owner"] \in {"r_join", "d_join"}

\* C18: once reset or the destructor has set m_running to false, joinThreads
\* eventually returns, paused or not and with the queue empty or not, and when
\* it returns every worker has left its loop.
C18_ShutdownTerminates ==
    /\ ~m_running ~> ~Joining
    /\ [][(Joining /\ ~Joining') => \A i \in Workers : m_threads[i].pc = "exited"]_vars

C18_Witness ==
    /\ pc["owner"] = "dead"
    /\ dtor.paused
    /\ Len(m_tasks) >= 1
    /\ \A i \in Workers : m_threads[i].pc = "joined"

\* ---- utilisation --------------------------------------------------------------------
\* Tasks that do not return: a worker that has dequeued one stays inside task().
\* The owner submits, pauses, resumes and resets; every worker is scheduled again
\* and again.
takeTask(i) ==
    \/ WorkerLoop(i)
    \/ WorkerPop(i)

UtilNext ==
    \/ AddTaskCount("owner")
    \/ AddTaskPush("owner")
    \/ \E b \in BOOLEAN : SetPaused(b)
    \/ \E k \in 1..MaxThreads : ResetBegin(k)
    \/ WaitCheck
    \/ WaitCheckRunning
    \/ ResetStop
    \/ ResetRecreate
    \/ \E i \in Workers : takeTask(i)

UtilSpec ==
    /\ Init
    /\ [][UtilNext]_vars
    /\ \A i \in 1..MaxThreads : WF_vars(i \in Workers /\ takeTask(i))

\* at least as many tasks are at hand as there are workers
EnoughTasks == Len(m_tasks) + Cardinality(Executing) >= getThreadsCount

\* every worker runs a task, and the queue holds the rest of what was pushed
FullyUsed ==
    /\ Cardinality(Executing) = getThreadsCount
    /\ Len(m_tasks) = Len(hist) - Cardinality(InAddTask) - getThreadsCount

\* C19: in an unpaused pool of k workers with at least k tasks that do not
\* return, unless the pool is paused again a state is reached in which exactly k
\* tasks execute and the queue is shorter by k; the number of tasks executing
\* never exceeds k, a reset included.
C19_FullUtilisation ==
    /\ []((~m_paused /\ EnoughTasks) => <>(m_paused \/ FullyUsed))
    /\ [](Cardinality(Executing) <= getThreadsCount)

C19_Witness ==
    /\ ~m_paused
    /\ FullyUsed
    /\ getThreadsCount >= 2
    /\ Len(hist) >= 2

====
